---------------------------- MODULE Spec2Model ----------------------------
(***************************************************************************)
(* A model of the ECS registry: versioned entity identifiers, the sparse   *)
(* set component pool, signatures, systems, tags, groups and the deferred  *)
(* create / kill / Update life cycle.                                      *)
(*                                                                         *)
(* Representation choices:                                                 *)
(*  - a 64-bit EntityID is the record of its two 32-bit halves,            *)
(*    [hi |-> version, lo |-> index]; a 32-bit hash is the pair of its two *)
(*    16-bit halves <<high, low>>;                                         *)
(*  - a std::vector is a sequence, element i of the vector is vec[i + 1];  *)
(*  - an array or map whose cells default to one value is the function of  *)
(*    its other cells (a sparse page holds -1 wherever it has no entry).   *)
(***************************************************************************)
EXTENDS Integers, Sequences, FiniteSets, TLC

\* ------------------------------------------------------------- constants
MAX_COMPONENTS == 32
MAX_ENTITIES == 1000000
PAGE_SIZE == 4096

\* ---------------------------------------------------------------- bounds
\* fresh slot indices CreateEntity may allocate
MaxSlots == 2
\* highest generation a slot may reach
MaxGen == 1
\* component values are 1..MaxValue
MaxValue == 2
\* longest dense array of a pool
MaxPool == 2
\* the same, for a pool on its own
PoolLen == 3
\* the same, for the life cycle on its own
LifeSlots == 3
LifeGen == 2
\* the same, for the calls through stale handles
StaleSlots == 1
StaleGen == 2

Components == {0, 1}
Values == 1..MaxValue

VARIABLES
    sizeBits,                     \* width of size_t in the build: 32 or 64
    crashed,                      \* the process was terminated
    m_numEntities,
    m_entitiesToBeAdded,
    m_entitiesToBeKilled,
    m_componentPools,
    m_entityComponentSignatures,
    m_systems,
    m_freeIndices,
    m_entityVersions,
    m_entityToTag,
    m_tagToEntity,
    m_groups,
    m_entityGroups,
    pool,                         \* a Pool<T> used on its own
    issued,                       \* history: every handle CreateEntity returned
    destroyed,                    \* history: every handle an Update destroyed
    freed,                        \* history: the handles destroyed since the last CreateEntity
    killOrder,                    \* history: the pending-destroy set in the order of the KillEntity calls
    grouped,                      \* history: the pairs <<entity, group name>> of the GroupEntity calls on
                                  \* entities not destroyed since
    codec                         \* an index, a version and a 64-bit id the id functions are applied to

vars == <<sizeBits, crashed, m_numEntities, m_entitiesToBeAdded,
          m_entitiesToBeKilled, m_componentPools, m_entityComponentSignatures,
          m_systems, m_freeIndices, m_entityVersions, m_entityToTag,
          m_tagToEntity, m_groups, m_entityGroups, pool, issued, destroyed,
          freed, killOrder, grouped, codec>>

\* ------------------------------------------------------------ versioned id
GetEntityIndex(id) == id.lo

GetEntityVersion(id) == id.hi

CreateEntityId(index, version) == [hi |-> version, lo |-> index]

\* ----------------------------------------------- versioned id, bit by bit
\* a u64 is its four 16-bit limbs, the most significant first; a u32 is two
ENTITY_INDEX_MASK == <<0, 0, 65535, 65535>>
ENTITY_VERSION_MASK == <<65535, 65535, 0, 0>>
ENTITY_VERSION_SHIFT == 32

RECURSIVE And16(_, _, _)
\* a & b on the low n bits
And16(a, b, n) ==
    IF n = 0 THEN 0
    ELSE ((a % 2) * (b % 2)) + 2 * And16(a \div 2, b \div 2, n - 1)

RECURSIVE Or16(_, _, _)
\* a | b on the low n bits
Or16(a, b, n) ==
    IF n = 0 THEN 0
    ELSE (IF a % 2 = 1 \/ b % 2 = 1 THEN 1 ELSE 0)
            + 2 * Or16(a \div 2, b \div 2, n - 1)

And64(a, b) == [k \in 1..4 |-> And16(a[k], b[k], 16)]

Or64(a, b) == [k \in 1..4 |-> Or16(a[k], b[k], 16)]

\* limb j of w, limb 0 the least significant; 0 beyond the word
Limb(w, j) == IF j < 0 \/ j > 3 THEN 0 ELSE w[4 - j]

\* w << n and w >> n on 64 bits, 0 <= n < 64
Shl64(w, n) ==
    LET q == n \div 16
        r == n % 16
    IN  [k \in 1..4 |->
           ((Limb(w, 4 - k - q) % (2 ^ (16 - r))) * (2 ^ r))
              + (Limb(w, 4 - k - q - 1) \div (2 ^ (16 - r)))]

Shr64(w, n) ==
    LET q == n \div 16
        r == n % 16
    IN  [k \in 1..4 |->
           (Limb(w, 4 - k + q) \div (2 ^ r))
              + ((Limb(w, 4 - k + q + 1) % (2 ^ r)) * (2 ^ (16 - r)))]

\* u32 -> u64, zero extended; u64 -> u32, the low half
ToU64(x) == <<0, 0, x[1], x[2]>>

ToU32(w) == <<w[3], w[4]>>

GetEntityIndexBits(id) == ToU32(And64(id, ENTITY_INDEX_MASK))

GetEntityVersionBits(id) ==
    ToU32(Shr64(And64(id, ENTITY_VERSION_MASK), ENTITY_VERSION_SHIFT))

\* mutant: the version is shifted as a u32, and the shift leaves nothing of it
CreateEntityIdNoCast(index, version) ==
    Or64(ToU64(ToU32(Shl64(ToU64(version), ENTITY_VERSION_SHIFT))), ToU64(index))

CreateEntityIdBits(index, version) ==
    Or64(Shl64(ToU64(version), ENTITY_VERSION_SHIFT), ToU64(index))

\* Entity::operator< compares the 64-bit ids
EntityLess(a, b) == a.hi < b.hi \/ (a.hi = b.hi /\ a.lo < b.lo)

\* iteration order of a std::set<Entity>
RECURSIVE SetOrder(_)
SetOrder(S) ==
    IF S = {} THEN <<>>
    ELSE LET m == CHOOSE x \in S : \A y \in S \ {x} : EntityLess(x, y)
         IN  <<m>> \o SetOrder(S \ {m})

\* ----------------------------------------------------------------- vectors
At(vec, i) == vec[i + 1]

Put(vec, i, x) == [vec EXCEPT ![i + 1] = x]

\* vector::resize(n, fill) when n exceeds the size
Resize(vec, n, fill) ==
    IF n <= Len(vec) THEN vec
    ELSE vec \o [k \in 1..(n - Len(vec)) |-> fill]

PopBack(vec) == SubSeq(vec, 1, Len(vec) - 1)

\* ---------------------------------------------------------------- Pool<T>
\* m_sparse: `size` pages, `page` maps each allocated page to its cells that
\* are not -1
NewPool ==
    [m_data |-> <<>>, m_packed |-> <<>>,
     m_sparse |-> [size |-> MAX_ENTITIES \div PAGE_SIZE + 1, page |-> <<>>]]

PageNull(sparse, page) == page \notin DOMAIN sparse.page

SparseAt(sparse, page, offset) ==
    IF offset \in DOMAIN sparse.page[page] THEN sparse.page[page][offset] ELSE -1

SparsePut(sparse, page, offset, x) ==
    LET old == sparse.page[page]
        new == IF x = -1
               THEN [o \in DOMAIN old \ {offset} |-> old[o]]
               ELSE [o \in DOMAIN old \cup {offset} |->
                        IF o = offset THEN x ELSE old[o]]
    IN  [sparse EXCEPT !.page = [p \in DOMAIN sparse.page |->
                                    IF p = page THEN new ELSE sparse.page[p]]]

\* new int[PAGE_SIZE] filled with -1
SparseNewPage(sparse, page) ==
    [sparse EXCEPT !.page = [p \in DOMAIN sparse.page \cup {page} |->
                                IF p = page THEN <<>> ELSE sparse.page[p]]]

PoolHas(p, entityId) ==
    LET index == GetEntityIndex(entityId)
        page == index \div PAGE_SIZE
        offset == index % PAGE_SIZE
    IN  IF page >= p.m_sparse.size \/ PageNull(p.m_sparse, page)
        THEN FALSE
        ELSE SparseAt(p.m_sparse, page, offset) # -1

\* the assert of Pool::Add is evaluated and fails
PoolAddAsserts(p, entityId) ==
    LET index == GetEntityIndex(entityId)
    IN  index \div PAGE_SIZE >= p.m_sparse.size /\ ~(index < MAX_ENTITIES)

PoolAdd(p, entityId, object) ==
    LET index == GetEntityIndex(entityId)
        page == index \div PAGE_SIZE
        offset == index % PAGE_SIZE
        s1 == IF page >= p.m_sparse.size
              THEN [p.m_sparse EXCEPT !.size = page + 1]
              ELSE p.m_sparse
        s2 == IF PageNull(s1, page) THEN SparseNewPage(s1, page) ELSE s1
        data == Append(p.m_data, object)
    IN  [m_data |-> data,
         m_packed |-> Append(p.m_packed, entityId),
         m_sparse |-> SparsePut(s2, page, offset, Len(data) - 1)]

PoolGet(p, entityId) ==
    LET index == GetEntityIndex(entityId)
    IN  At(p.m_data, SparseAt(p.m_sparse, index \div PAGE_SIZE, index % PAGE_SIZE))

\* mutant: the value is appended whether or not the slot is present
PoolSetAlwaysAdds(p, entityId, object) == PoolAdd(p, entityId, object)

PoolSet(p, entityId, object) ==
    LET index == GetEntityIndex(entityId)
    IN  IF PoolHas(p, entityId)
        THEN [p EXCEPT !.m_data =
                 Put(p.m_data,
                     SparseAt(p.m_sparse, index \div PAGE_SIZE, index % PAGE_SIZE),
                     object)]
        ELSE PoolAdd(p, entityId, object)

PoolRemove(p, entityId) ==
    IF ~PoolHas(p, entityId) THEN p
    ELSE
      LET index == GetEntityIndex(entityId)
          page == index \div PAGE_SIZE
          offset == index % PAGE_SIZE
          indexToRemove == SparseAt(p.m_sparse, page, offset)
          indexLast == Len(p.m_data) - 1
          lastEntityId == At(p.m_packed, indexLast)
          lastEntityIndex == GetEntityIndex(lastEntityId)
          moved == indexToRemove # indexLast
          data == IF moved THEN Put(p.m_data, indexToRemove, At(p.m_data, indexLast))
                  ELSE p.m_data
          packed == IF moved THEN Put(p.m_packed, indexToRemove, lastEntityId)
                    ELSE p.m_packed
          sparse == IF moved
                    THEN SparsePut(p.m_sparse, lastEntityIndex \div PAGE_SIZE,
                                   lastEntityIndex % PAGE_SIZE, indexToRemove)
                    ELSE p.m_sparse
      IN  [m_data |-> PopBack(data),
           m_packed |-> PopBack(packed),
           m_sparse |-> SparsePut(sparse, page, offset, -1)]

PoolClear(p) ==
    [m_data |-> <<>>, m_packed |-> <<>>,
     m_sparse |-> [p.m_sparse EXCEPT !.page = <<>>]]


\* ------------------------------------------------------------- HashString
RECURSIVE Xor8(_, _, _)
\* exclusive or of the low n bits of a and b
Xor8(a, b, n) ==
    IF n = 0 THEN 0
    ELSE (((a % 2) + (b % 2)) % 2) + 2 * Xor8(a \div 2, b \div 2, n - 1)

\* hash ^= byte, on the halves <<high, low>> of the 32-bit hash
HashXor(h, byte) == <<h[1], ((h[2] \div 256) * 256) + Xor8(h[2] % 256, byte, 8)>>

\* hash *= 16777619 (2^24 + 403), modulo 2^32
HashMul(h) ==
    LET p == h[2] * 403
        q == h[1] * 403
    IN  <<(q + (p \div 65536) + ((h[2] % 256) * 256)) % 65536, p % 65536>>

RECURSIVE HashFrom(_, _)
HashFrom(h, str) ==
    IF str = <<>> THEN h
    ELSE HashFrom(HashMul(HashXor(h, Head(str))), Tail(str))

\* FNV-1a from the offset basis 2166136261 = 0x811C9DC5; str is the byte string
HashString(str) == HashFrom(<<33052, 40389>>, str)

\* the names the client uses, as byte strings
NamePlayer == <<112, 108, 97, 121, 101, 114>>
NameLiquid == <<108, 105, 113, 117, 105, 100>>
NameCostarring == <<99, 111, 115, 116, 97, 114, 114, 105, 110, 103>>
NameEnemies == <<101, 110, 101, 109, 105, 101, 115>>

TagNames == {NamePlayer, NameLiquid}
GroupNames == {NameEnemies}

HashOf == [n \in TagNames \cup GroupNames \cup {NameCostarring} |-> HashString(n)]

NoTag == <<0, 0>>

\* ----------------------------------------------------------------- System
\* the client's system types and the signature each requires in its constructor
SystemTypes == {0, 1}

RequiredOf(S) == IF S = 0 THEN {0} ELSE {0, 1}

NewSystem(S) == [m_componentSignature |-> RequiredOf(S), m_entities |-> <<>>]

SystemAddEntityToSystem(sys, entity) ==
    [sys EXCEPT !.m_entities = Append(@, entity)]

SystemRemoveEntityFromSystem(sys, entity) ==
    [sys EXCEPT !.m_entities = SelectSeq(@, LAMBDA other : other # entity)]

\* ---------------------------------------------------------------- Registry
\* std::unique_ptr: <<>> is nullptr, <<x>> owns x
Null == <<>>

\* does vec[entityId] fall inside the vector? The subscript is a size_t: a
\* 32-bit size_t keeps the low half of the id, a 64-bit one the whole id
SubscriptInside(vec, entityId) ==
    /\ sizeBits = 32 \/ entityId.hi = 0
    /\ entityId.lo < Len(vec)

\* mutant: the generation is not compared
IsValidInIndexOnly(versions, e) == GetEntityIndex(e) < Len(versions)

IsValidIn(versions, e) ==
    LET index == GetEntityIndex(e)
    IN  IF index >= Len(versions) THEN FALSE
        ELSE At(versions, index) = GetEntityVersion(e)

IsValid(e) == IsValidIn(m_entityVersions, e)

GetPoolIn(pools, componentId) ==
    IF componentId >= Len(pools) \/ At(pools, componentId) = Null
    THEN Null
    ELSE At(pools, componentId)

GetPool(componentId) == GetPoolIn(m_componentPools, componentId)

\* the outcomes of HasComponent: the bit, or anything when the subscript is
\* outside the vector
HasComponent(e, componentId) ==
    IF SubscriptInside(m_entityComponentSignatures, e)
    THEN {IF componentId \in At(m_entityComponentSignatures, e.lo)
          THEN "true" ELSE "false"}
    ELSE {"true", "false", "crash"}

GetComponent(e, componentId) == PoolGet(At(m_componentPools, componentId)[1], e)

\* mutant: a system takes an entity that has any one of its components
AddEntityToSystemsAnyBit(systems, sigs, e) ==
    LET index == GetEntityIndex(e)
        entityComponentSignature == At(sigs, index)
    IN  [S \in DOMAIN systems |->
            LET systemComponentSignature == systems[S].m_componentSignature
                isInterested ==
                    (entityComponentSignature \cap systemComponentSignature) # {}
            IN  IF isInterested THEN SystemAddEntityToSystem(systems[S], e)
                ELSE systems[S]]

AddEntityToSystems(systems, sigs, e) ==
    LET index == GetEntityIndex(e)
        entityComponentSignature == At(sigs, index)
    IN  [S \in DOMAIN systems |->
            LET systemComponentSignature == systems[S].m_componentSignature
                isInterested ==
                    (entityComponentSignature \cap systemComponentSignature)
                        = systemComponentSignature
            IN  IF isInterested THEN SystemAddEntityToSystem(systems[S], e)
                ELSE systems[S]]

RemoveEntityFromSystems(systems, e) ==
    [S \in DOMAIN systems |-> SystemRemoveEntityFromSystem(systems[S], e)]

\* tags: t = [entityToTag, tagToEntity]
RemoveEntityTagIn(t, e) ==
    LET index == GetEntityIndex(e)
    IN  IF index >= Len(t.entityToTag) THEN t
        ELSE LET hash == At(t.entityToTag, index)
             IN  IF hash # NoTag
                 THEN [entityToTag |-> Put(t.entityToTag, index, NoTag),
                       tagToEntity |-> [h \in DOMAIN t.tagToEntity \ {hash} |->
                                           t.tagToEntity[h]]]
                 ELSE t

\* one iteration of the loop of RemoveEntityGroup
RemoveFromGroup(groups, groupHash, id) ==
    IF groupHash \notin DOMAIN groups THEN groups
    ELSE
      LET group == groups[groupHash]
      IN  IF id \notin DOMAIN group.entityToIndex THEN groups
          ELSE
            LET indexToRemove == group.entityToIndex[id]
                indexLast == Len(group.entities) - 1
                lastEntity == At(group.entities, indexLast)
                moved == indexToRemove # indexLast
                ents == IF moved THEN Put(group.entities, indexToRemove, lastEntity)
                        ELSE group.entities
                e2i == IF moved
                       THEN [group.entityToIndex EXCEPT ![lastEntity] = indexToRemove]
                       ELSE group.entityToIndex
                new == [entities |-> PopBack(ents),
                        entityToIndex |-> [x \in DOMAIN e2i \ {id} |-> e2i[x]]]
            IN  [groups EXCEPT ![groupHash] = new]

RECURSIVE RemoveFromGroups(_, _, _)
RemoveFromGroups(groups, hashes, id) ==
    IF hashes = <<>> THEN groups
    ELSE RemoveFromGroups(RemoveFromGroup(groups, Head(hashes), id), Tail(hashes), id)

\* groups: g = [groups, entityGroups]
RemoveEntityGroupIn(g, e) ==
    LET index == GetEntityIndex(e)
    IN  IF index >= Len(g.entityGroups) THEN g
        ELSE [groups |-> RemoveFromGroups(g.groups, At(g.entityGroups, index), e),
              entityGroups |-> Put(g.entityGroups, index, <<>>)]

\* mutant: the generation of the slot is not incremented
DestroyEntityKeepsVersion(st, e) ==
    IF ~IsValidIn(st.versions, e) THEN st
    ELSE [st EXCEPT !.free = Append(st.free, GetEntityIndex(e)),
                    !.gone = st.gone \cup {e}]

\* one iteration of the second loop of Update; st carries the members it writes
\* mutant: the slot index is pushed onto the free-list twice
DestroyEntityFreesTwice(st, e) ==
    IF ~IsValidIn(st.versions, e) THEN st
    ELSE
      LET index == GetEntityIndex(e)
          t == RemoveEntityTagIn([entityToTag |-> st.entityToTag,
                                  tagToEntity |-> st.tagToEntity], e)
          g == RemoveEntityGroupIn([groups |-> st.groups,
                                    entityGroups |-> st.entityGroups], e)
      IN  [systems |-> RemoveEntityFromSystems(st.systems, e),
           sigs |-> Put(st.sigs, index, {}),
           pools |-> [i \in DOMAIN st.pools |->
                        IF st.pools[i] = Null THEN Null
                        ELSE <<PoolRemove(st.pools[i][1], e)>>],
           entityToTag |-> t.entityToTag,
           tagToEntity |-> t.tagToEntity,
           groups |-> g.groups,
           entityGroups |-> g.entityGroups,
           versions |-> Put(st.versions, index, At(st.versions, index) + 1),
           free |-> Append(Append(st.free, index), index),
           gone |-> st.gone \cup {e}]

DestroyEntity(st, e) ==
    IF ~IsValidIn(st.versions, e) THEN st
    ELSE
      LET index == GetEntityIndex(e)
          t == RemoveEntityTagIn([entityToTag |-> st.entityToTag,
                                  tagToEntity |-> st.tagToEntity], e)
          g == RemoveEntityGroupIn([groups |-> st.groups,
                                    entityGroups |-> st.entityGroups], e)
      IN  [systems |-> RemoveEntityFromSystems(st.systems, e),
           sigs |-> Put(st.sigs, index, {}),
           pools |-> [i \in DOMAIN st.pools |->
                        IF st.pools[i] = Null THEN Null
                        ELSE <<PoolRemove(st.pools[i][1], e)>>],
           entityToTag |-> t.entityToTag,
           tagToEntity |-> t.tagToEntity,
           groups |-> g.groups,
           entityGroups |-> g.entityGroups,
           versions |-> Put(st.versions, index, At(st.versions, index) + 1),
           free |-> Append(st.free, index),
           gone |-> st.gone \cup {e}]

RECURSIVE DestroyEntities(_, _)
DestroyEntities(st, es) ==
    IF es = <<>> THEN st
    ELSE DestroyEntities(DestroyEntity(st, Head(es)), Tail(es))

RECURSIVE AddEntitiesToSystems(_, _, _)
AddEntitiesToSystems(systems, sigs, es) ==
    IF es = <<>> THEN systems
    ELSE AddEntitiesToSystems(AddEntityToSystems(systems, sigs, Head(es)), sigs,
                              Tail(es))

\* the registry after Update
Updated ==
    DestroyEntities(
        [systems |-> AddEntitiesToSystems(m_systems, m_entityComponentSignatures,
                                          SetOrder(m_entitiesToBeAdded)),
         sigs |-> m_entityComponentSignatures,
         pools |-> m_componentPools,
         entityToTag |-> m_entityToTag,
         tagToEntity |-> m_tagToEntity,
         groups |-> m_groups,
         entityGroups |-> m_entityGroups,
         versions |-> m_entityVersions,
         free |-> m_freeIndices,
         gone |-> {}],
        SetOrder(m_entitiesToBeKilled))

\* ------------------------------------------------------------------ state
RegistryInit ==
    /\ sizeBits \in {32, 64}
    /\ crashed = FALSE
    /\ m_numEntities = 0
    /\ m_entitiesToBeAdded = {}
    /\ m_entitiesToBeKilled = {}
    /\ m_componentPools = <<>>
    /\ m_entityComponentSignatures = <<>>
    /\ m_systems = <<>>
    /\ m_freeIndices = <<>>
    /\ m_entityVersions = <<>>
    /\ m_entityToTag = <<>>
    /\ m_tagToEntity = <<>>
    /\ m_groups = <<>>
    /\ m_entityGroups = <<>>
    /\ issued = {}
    /\ destroyed = {}
    /\ freed = {}
    /\ killOrder = <<>>
    /\ grouped = {}

\* the limbs the id functions are tried on
Limbs == {0, 1, 32768, 65535}
U32s == {<<h, l>> : h \in Limbs, l \in Limbs}
U64s == {<<a, b, c, d>> : a \in Limbs, b \in Limbs, c \in Limbs, d \in Limbs}

CodecIdle ==
    [kind |-> "idle", index |-> <<0, 0>>, version |-> <<0, 0>>, id |-> <<0, 0, 0, 0>>]

Init == RegistryInit /\ pool = NewPool /\ codec = CodecIdle

\* the id functions start from a pair (index, version) or from an id
InitCodec ==
    /\ RegistryInit
    /\ pool = NewPool
    /\ \/ \E i \in U32s, g \in U32s :
             codec = [kind |-> "pair", index |-> i, version |-> g, id |-> <<0, 0, 0, 0>>]
       \/ \E id \in U64s :
             codec = [kind |-> "id", index |-> <<0, 0>>, version |-> <<0, 0>>, id |-> id]

lifeVars == <<m_numEntities, m_entitiesToBeAdded, m_entitiesToBeKilled,
              m_freeIndices, m_entityVersions, issued, destroyed, freed,
              killOrder>>
tagVars == <<m_entityToTag, m_tagToEntity>>
groupVars == <<m_groups, m_entityGroups, grouped>>

\* ---------------------------------------------------------------- actions
\* mutant: the id is built from the slot index alone
CreatedWithoutVersion ==
    CreateEntityId(IF m_freeIndices = <<>> THEN m_numEntities
                   ELSE Head(m_freeIndices), 0)

\* mutant: the slot freed last is taken
CreatedLastFreed ==
    LET fresh == m_freeIndices = <<>>
        index == IF fresh THEN m_numEntities
                 ELSE m_freeIndices[Len(m_freeIndices)]
        version == IF index >= Len(m_entityVersions) THEN 0
                   ELSE At(m_entityVersions, index)
    IN  CreateEntityId(index, version)

\* the handle CreateEntity returns
Created ==
    LET fresh == m_freeIndices = <<>>
        index == IF fresh THEN m_numEntities ELSE Head(m_freeIndices)
        version == IF index >= Len(m_entityVersions) THEN 0
                   ELSE At(m_entityVersions, index)
    IN  CreateEntityId(index, version)

\* mutant: the new entity is not put into the pending-create set
CreateEntityVisibleAtOnce ==
    /\ ~crashed
    /\ LET fresh == m_freeIndices = <<>>
           index == GetEntityIndex(Created)
       IN  /\ m_numEntities' = IF fresh THEN m_numEntities + 1 ELSE m_numEntities
           /\ m_freeIndices' = IF fresh THEN m_freeIndices ELSE Tail(m_freeIndices)
           /\ m_entityVersions' =
                 IF fresh THEN Resize(m_entityVersions, index + 1, 0)
                 ELSE m_entityVersions
           /\ m_entityComponentSignatures' =
                 IF fresh /\ index >= Len(m_entityVersions)
                 THEN Resize(m_entityComponentSignatures, index + 1, {})
                 ELSE m_entityComponentSignatures
    /\ m_entitiesToBeAdded' = m_entitiesToBeAdded
    /\ issued' = issued \cup {Created}
    /\ freed' = {}
    /\ UNCHANGED <<sizeBits, codec, crashed, m_entitiesToBeKilled, m_componentPools,
                   m_systems, tagVars, groupVars, pool, destroyed,
                   killOrder>>

\* mutant: the slot handed out stays on the free-list
CreateEntityKeepsFreeIndex ==
    /\ ~crashed
    /\ LET fresh == m_freeIndices = <<>>
           index == GetEntityIndex(Created)
       IN  /\ m_numEntities' = IF fresh THEN m_numEntities + 1 ELSE m_numEntities
           /\ m_freeIndices' = m_freeIndices
           /\ m_entityVersions' =
                 IF fresh THEN Resize(m_entityVersions, index + 1, 0)
                 ELSE m_entityVersions
           /\ m_entityComponentSignatures' =
                 IF fresh /\ index >= Len(m_entityVersions)
                 THEN Resize(m_entityComponentSignatures, index + 1, {})
                 ELSE m_entityComponentSignatures
    /\ m_entitiesToBeAdded' = m_entitiesToBeAdded \cup {Created}
    /\ issued' = issued \cup {Created}
    /\ freed' = {}
    /\ UNCHANGED <<sizeBits, codec, crashed, m_entitiesToBeKilled, m_componentPools,
                   m_systems, tagVars, groupVars, pool, destroyed,
                   killOrder>>

CreateEntity ==
    /\ ~crashed
    /\ LET fresh == m_freeIndices = <<>>
           index == GetEntityIndex(Created)
       IN  /\ m_numEntities' = IF fresh THEN m_numEntities + 1 ELSE m_numEntities
           /\ m_freeIndices' = IF fresh THEN m_freeIndices ELSE Tail(m_freeIndices)
           /\ m_entityVersions' =
                 IF fresh THEN Resize(m_entityVersions, index + 1, 0)
                 ELSE m_entityVersions
           /\ m_entityComponentSignatures' =
                 IF fresh /\ index >= Len(m_entityVersions)
                 THEN Resize(m_entityComponentSignatures, index + 1, {})
                 ELSE m_entityComponentSignatures
    /\ m_entitiesToBeAdded' = m_entitiesToBeAdded \cup {Created}
    /\ issued' = issued \cup {Created}
    /\ freed' = {}
    /\ UNCHANGED <<sizeBits, codec, crashed, m_entitiesToBeKilled, m_componentPools,
                   m_systems, tagVars, groupVars, pool, destroyed,
                   killOrder>>

\* mutant: the generation of the slot is bumped by the call itself
KillEntityAtOnce(e) ==
    /\ ~crashed
    /\ m_entitiesToBeKilled' =
          IF ~IsValid(e) THEN m_entitiesToBeKilled
          ELSE m_entitiesToBeKilled \cup {e}
    /\ killOrder' =
          IF ~IsValid(e) \/ e \in m_entitiesToBeKilled THEN killOrder
          ELSE Append(killOrder, e)
    /\ m_entityVersions' =
          IF ~IsValid(e) THEN m_entityVersions
          ELSE Put(m_entityVersions, GetEntityIndex(e),
                   At(m_entityVersions, GetEntityIndex(e)) + 1)
    /\ UNCHANGED <<sizeBits, codec, crashed, m_numEntities, m_entitiesToBeAdded,
                   m_componentPools, m_entityComponentSignatures, m_systems,
                   m_freeIndices, tagVars, groupVars, pool,
                   issued, destroyed, freed>>

\* mutant: the handle is queued without the validity test
KillEntityUnchecked(e) ==
    /\ ~crashed
    /\ m_entitiesToBeKilled' = m_entitiesToBeKilled \cup {e}
    /\ killOrder' =
          IF e \in m_entitiesToBeKilled THEN killOrder ELSE Append(killOrder, e)
    /\ UNCHANGED <<sizeBits, codec, crashed, m_numEntities, m_entitiesToBeAdded,
                   m_componentPools, m_entityComponentSignatures, m_systems,
                   m_freeIndices, m_entityVersions, tagVars, groupVars, pool,
                   issued, destroyed, freed>>

KillEntity(e) ==
    /\ ~crashed
    /\ m_entitiesToBeKilled' =
          IF ~IsValid(e) THEN m_entitiesToBeKilled
          ELSE m_entitiesToBeKilled \cup {e}
    /\ killOrder' =
          IF ~IsValid(e) \/ e \in m_entitiesToBeKilled THEN killOrder
          ELSE Append(killOrder, e)
    /\ UNCHANGED <<sizeBits, codec, crashed, m_numEntities, m_entitiesToBeAdded,
                   m_componentPools, m_entityComponentSignatures, m_systems,
                   m_freeIndices, m_entityVersions, tagVars, groupVars, pool,
                   issued, destroyed, freed>>

Update ==
    /\ ~crashed
    /\ LET st == Updated
       IN  /\ m_systems' = st.systems
           /\ m_entityComponentSignatures' = st.sigs
           /\ m_componentPools' = st.pools
           /\ m_entityToTag' = st.entityToTag
           /\ m_tagToEntity' = st.tagToEntity
           /\ m_groups' = st.groups
           /\ m_entityGroups' = st.entityGroups
           /\ grouped' = {p \in grouped : p[1] \notin st.gone}
           /\ m_entityVersions' = st.versions
           /\ m_freeIndices' = st.free
           /\ destroyed' = destroyed \cup st.gone
           /\ freed' = freed \cup st.gone
    /\ m_entitiesToBeAdded' = {}
    /\ m_entitiesToBeKilled' = {}
    /\ killOrder' = <<>>
    /\ UNCHANGED <<sizeBits, codec, crashed, m_numEntities, pool, issued>>

\* the pools after AddComponent<T>(e, object), componentId the id of T
PoolsWithComponent(e, componentId, object) ==
    LET resized == Resize(m_componentPools, componentId + 1, Null)
        made == IF At(resized, componentId) = Null
                THEN Put(resized, componentId, <<NewPool>>)
                ELSE resized
    IN  Put(made, componentId, <<PoolAdd(At(made, componentId)[1], e, object)>>)

\* mutant: the system lists are recomputed for the entity at once
AddComponentEnrolling(e, componentId, object) ==
    /\ ~crashed
    /\ m_componentPools' = PoolsWithComponent(e, componentId, object)
    /\ IF SubscriptInside(m_entityComponentSignatures, e)
       THEN /\ m_entityComponentSignatures' =
                  Put(m_entityComponentSignatures, e.lo,
                      At(m_entityComponentSignatures, e.lo) \cup {componentId})
            /\ crashed' = crashed
       ELSE /\ crashed' \in {TRUE, FALSE}
            /\ UNCHANGED m_entityComponentSignatures
    /\ m_systems' = AddEntityToSystems(m_systems, m_entityComponentSignatures', e)
    /\ UNCHANGED <<sizeBits, codec, lifeVars, tagVars, groupVars, pool>>

AddComponent(e, componentId, object) ==
    /\ ~crashed
    /\ m_componentPools' = PoolsWithComponent(e, componentId, object)
    /\ IF SubscriptInside(m_entityComponentSignatures, e)
       THEN /\ m_entityComponentSignatures' =
                  Put(m_entityComponentSignatures, e.lo,
                      At(m_entityComponentSignatures, e.lo) \cup {componentId})
            /\ crashed' = crashed
       ELSE \* a write outside the vector: the process dies, or the write lands
            \* in memory that is none of the registry's members
            /\ crashed' \in {TRUE, FALSE}
            /\ UNCHANGED m_entityComponentSignatures
    /\ UNCHANGED <<sizeBits, codec, lifeVars, m_systems, tagVars, groupVars, pool>>

RemoveComponent(e, componentId) ==
    /\ ~crashed
    /\ \E died \in BOOLEAN :
          /\ IF GetPool(componentId) # Null
             THEN /\ m_componentPools' =
                        Put(m_componentPools, componentId,
                            <<PoolRemove(GetPool(componentId)[1], e)>>)
                  /\ died = FALSE
             ELSE \* a call through a null or missing unique_ptr: the process
                  \* dies, or the call has no effect
                  UNCHANGED m_componentPools
          /\ IF SubscriptInside(m_entityComponentSignatures, e)
             THEN /\ m_entityComponentSignatures' =
                        Put(m_entityComponentSignatures, e.lo,
                            At(m_entityComponentSignatures, e.lo) \ {componentId})
                  /\ crashed' = died
             ELSE /\ crashed' \in {TRUE, died}
                  /\ UNCHANGED m_entityComponentSignatures
    /\ UNCHANGED <<sizeBits, codec, lifeVars, m_systems, tagVars, groupVars, pool>>

\* mutant: a new system takes the valid entities that have its components
AddSystemEnrolling(S) ==
    /\ ~crashed
    /\ m_systems' =
          IF S \in DOMAIN m_systems THEN m_systems
          ELSE LET matching ==
                      SetOrder({e \in issued \ m_entitiesToBeAdded :
                                   /\ IsValid(e)
                                   /\ RequiredOf(S) \subseteq
                                         At(m_entityComponentSignatures,
                                            GetEntityIndex(e))})
               IN  [T \in DOMAIN m_systems \cup {S} |->
                      IF T = S THEN [NewSystem(S) EXCEPT !.m_entities = matching]
                      ELSE m_systems[T]]
    /\ UNCHANGED <<sizeBits, codec, crashed, lifeVars, m_componentPools,
                   m_entityComponentSignatures, tagVars, groupVars, pool>>

AddSystem(S) ==
    /\ ~crashed
    /\ m_systems' = IF S \in DOMAIN m_systems THEN m_systems
                    ELSE [T \in DOMAIN m_systems \cup {S} |->
                            IF T = S THEN NewSystem(S) ELSE m_systems[T]]
    /\ UNCHANGED <<sizeBits, codec, crashed, lifeVars, m_componentPools,
                   m_entityComponentSignatures, tagVars, groupVars, pool>>

RemoveSystem(S) ==
    /\ ~crashed
    /\ IF S \in DOMAIN m_systems
       THEN /\ m_systems' = [T \in DOMAIN m_systems \ {S} |-> m_systems[T]]
            /\ crashed' = crashed
       ELSE \* erase(end()): the process dies, or nothing is erased
            /\ crashed' \in {TRUE, FALSE}
            /\ UNCHANGED m_systems
    /\ UNCHANGED <<sizeBits, codec, lifeVars, m_componentPools,
                   m_entityComponentSignatures, tagVars, groupVars, pool>>

TagEntity(e, tag) ==
    /\ ~crashed
    /\ LET index == GetEntityIndex(e)
           hash == HashOf[tag]
       IN  /\ m_entityToTag' = Put(Resize(m_entityToTag, index + 1, NoTag), index, hash)
           /\ m_tagToEntity' = [h \in DOMAIN m_tagToEntity \cup {hash} |->
                                   IF h = hash THEN e ELSE m_tagToEntity[h]]
    /\ UNCHANGED <<sizeBits, codec, crashed, lifeVars, m_componentPools,
                   m_entityComponentSignatures, m_systems, groupVars, pool>>

\* m_groups[hash]: the group, default-constructed when missing
GroupsWith(groups, hash) ==
    IF hash \in DOMAIN groups THEN groups
    ELSE [h \in DOMAIN groups \cup {hash} |->
            IF h = hash THEN [entities |-> <<>>, entityToIndex |-> <<>>]
            ELSE groups[h]]

GroupEntity(e, groupName) ==
    /\ ~crashed
    /\ LET groupHash == HashOf[groupName]
           groups == GroupsWith(m_groups, groupHash)
           group == groups[groupHash]
           index == GetEntityIndex(e)
       IN  IF e \in DOMAIN group.entityToIndex
           THEN /\ m_groups' = groups
                /\ UNCHANGED m_entityGroups
           ELSE LET ents == Append(group.entities, e)
                    e2i == [x \in DOMAIN group.entityToIndex \cup {e} |->
                               IF x = e THEN Len(ents) - 1
                               ELSE group.entityToIndex[x]]
                    eg == Resize(m_entityGroups, index + 1, <<>>)
                IN  /\ m_groups' = [groups EXCEPT ![groupHash] =
                                       [entities |-> ents, entityToIndex |-> e2i]]
                    /\ m_entityGroups' = Put(eg, index, Append(At(eg, index), groupHash))
    /\ grouped' = grouped \cup {<<e, groupName>>}
    /\ UNCHANGED <<sizeBits, codec, crashed, lifeVars, m_componentPools,
                   m_entityComponentSignatures, m_systems, tagVars, pool>>

GetEntitiesByGroup(groupName) ==
    /\ ~crashed
    /\ m_groups' = GroupsWith(m_groups, HashOf[groupName])
    /\ UNCHANGED <<sizeBits, codec, crashed, lifeVars, m_componentPools,
                   m_entityComponentSignatures, m_systems, tagVars,
                   m_entityGroups, grouped, pool>>

\* -------------------------------------------------------------- observers
EntityHasTag(e, tag) ==
    LET index == GetEntityIndex(e)
    IN  IF index >= Len(m_entityToTag) THEN FALSE
        ELSE At(m_entityToTag, index) = HashOf[tag]

GetEntityByTag(tag) ==
    IF HashOf[tag] \in DOMAIN m_tagToEntity THEN m_tagToEntity[HashOf[tag]]
    ELSE CreateEntityId(0, 0)

\* the list GetEntitiesByGroup returns
EntitiesByGroup(groupName) ==
    GroupsWith(m_groups, HashOf[groupName])[HashOf[groupName]].entities

EntityBelongsToGroup(e, groupName) ==
    IF HashOf[groupName] \notin DOMAIN m_groups THEN FALSE
    ELSE e \in DOMAIN m_groups[HashOf[groupName]].entityToIndex

\* mutant: only the pool of the first kind is tested
ViewLeaderOnly(kinds) ==
    IF GetPool(kinds[1]) = Null THEN <<>>
    ELSE
      LET present == {k \in DOMAIN kinds : GetPool(kinds[k]) # Null}
          entities == GetPool(kinds[1])[1].m_packed
          hasAll(entityId) ==
              \A k \in present : PoolHas(GetPool(kinds[k])[1], entityId)
          matched == SelectSeq(entities, hasAll)
      IN  [i \in DOMAIN matched |-> <<matched[i]>>]

\* the calls View<Components...>(func) makes to func, in order; kinds is the
\* list of component ids, each call is <<entityId, value of kinds[1], ...>>
View(kinds) ==
    IF \E k \in DOMAIN kinds : GetPool(kinds[k]) = Null THEN <<>>
    ELSE
      LET pools == [k \in DOMAIN kinds |-> GetPool(kinds[k])[1]]
          entities == pools[1].m_packed
          hasAll(entityId) == \A k \in DOMAIN kinds : PoolHas(pools[k], entityId)
          matched == SelectSeq(entities, hasAll)
      IN  [i \in DOMAIN matched |->
              <<matched[i]>> \o [k \in DOMAIN kinds |-> PoolGet(pools[k], matched[i])]]

\* ------------------------------------------------------- a pool on its own
registryVars == <<sizeBits, codec, lifeVars, m_componentPools,
                  m_entityComponentSignatures, m_systems, tagVars, groupVars>>

\* a failed assert ends the process
PoolAddStep(id, object) ==
    /\ ~crashed
    /\ IF PoolAddAsserts(pool, id)
       THEN crashed' = TRUE /\ pool' = pool
       ELSE crashed' = crashed /\ pool' = PoolAdd(pool, id, object)
    /\ UNCHANGED registryVars

PoolSetStep(id, object) ==
    /\ ~crashed
    /\ IF ~PoolHas(pool, id) /\ PoolAddAsserts(pool, id)
       THEN crashed' = TRUE /\ pool' = pool
       ELSE crashed' = crashed /\ pool' = PoolSet(pool, id, object)
    /\ UNCHANGED registryVars

PoolRemoveStep(id) ==
    /\ ~crashed
    /\ pool' = PoolRemove(pool, id)
    /\ UNCHANGED <<crashed, registryVars>>

PoolClearStep ==
    /\ ~crashed
    /\ pool' = PoolClear(pool)
    /\ UNCHANGED <<crashed, registryVars>>

\* ---------------------------------------------------------- specifications
\* The bounds of the model are guards on the calls the client makes.
SlotLeft(slots) == m_freeIndices = <<>> => m_numEntities < slots

GenLeft(e, gen) == IsValid(e) => At(m_entityVersions, GetEntityIndex(e)) < gen

RoomLeft(componentId) ==
    GetPool(componentId) # Null => Len(GetPool(componentId)[1].m_data) < MaxPool

\* a handle whose slot index is outside the version table
OutOfRange == CreateEntityId(LifeSlots, 0)

\* entity life cycle only
NextLife ==
    \/ SlotLeft(LifeSlots) /\ CreateEntity
    \/ \E e \in issued \cup {OutOfRange} : GenLeft(e, LifeGen) /\ KillEntity(e)
    \/ Update

SpecLife == Init /\ [][NextLife]_vars

\* a Pool<T> on its own
PoolIds == {CreateEntityId(i, g) : i \in {0, 1, PAGE_SIZE}, g \in {0, 1}}

NextPool ==
    \/ \E id \in PoolIds, v \in Values :
          Len(pool.m_data) < PoolLen /\ PoolAddStep(id, v)
    \/ \E id \in PoolIds, v \in Values :
          Len(pool.m_data) < PoolLen /\ PoolSetStep(id, v)
    \/ \E id \in PoolIds : PoolRemoveStep(id)
    \/ PoolClearStep

SpecPool == Init /\ [][NextPool]_vars

\* entities and their components
NextComp ==
    \/ SlotLeft(MaxSlots) /\ CreateEntity
    \/ \E e \in issued : GenLeft(e, MaxGen) /\ KillEntity(e)
    \/ Update
    \/ \E e \in issued, c \in Components, v \in Values :
          IsValid(e) /\ RoomLeft(c) /\ AddComponent(e, c, v)
    \/ \E e \in issued, c \in Components : IsValid(e) /\ RemoveComponent(e, c)

SpecComp == Init /\ [][NextComp]_vars

\* entities, their components and the systems
NextSys ==
    \/ SlotLeft(MaxSlots) /\ CreateEntity
    \/ \E e \in issued : GenLeft(e, MaxGen) /\ KillEntity(e)
    \/ Update
    \/ \E e \in issued, c \in Components :
          IsValid(e) /\ RoomLeft(c) /\ AddComponent(e, c, 1)
    \/ \E e \in issued, c \in Components : IsValid(e) /\ RemoveComponent(e, c)
    \/ \E S \in SystemTypes : AddSystem(S)
    \/ \E S \in SystemTypes : RemoveSystem(S)

SpecSys == Init /\ [][NextSys]_vars

\* the whole registry, called through valid handles
Next ==
    \/ SlotLeft(MaxSlots) /\ CreateEntity
    \/ \E e \in issued : GenLeft(e, MaxGen) /\ KillEntity(e)
    \/ Update
    \/ \E e \in issued : IsValid(e) /\ RoomLeft(0) /\ AddComponent(e, 0, 1)
    \/ \E e \in issued : IsValid(e) /\ RemoveComponent(e, 0)
    \/ AddSystem(0)
    \/ RemoveSystem(0)
    \/ \E e \in issued : IsValid(e) /\ TagEntity(e, NamePlayer)
    \/ \E e \in issued : IsValid(e) /\ GroupEntity(e, NameEnemies)
    \/ GetEntitiesByGroup(NameEnemies)

Spec == Init /\ [][Next]_vars

\* one slot, called through every handle ever returned, stale ones included
NextStale ==
    \/ SlotLeft(StaleSlots) /\ CreateEntity
    \/ \E e \in issued : GenLeft(e, StaleGen) /\ KillEntity(e)
    \/ Update
    \/ \E e \in issued, v \in Values : RoomLeft(0) /\ AddComponent(e, 0, v)
    \/ \E e \in issued : RemoveComponent(e, 0)
    \/ \E e \in issued, n \in TagNames : TagEntity(e, n)
    \/ \E e \in issued : GroupEntity(e, NameEnemies)

SpecStale == Init /\ [][NextStale]_vars

\* a Pool<T> on its own, slot indices around MAX_ENTITIES
EdgeIds ==
    {CreateEntityId(i, 0) :
        i \in {MAX_ENTITIES - 1, MAX_ENTITIES,
               (MAX_ENTITIES \div PAGE_SIZE + 1) * PAGE_SIZE - 1,
               (MAX_ENTITIES \div PAGE_SIZE + 1) * PAGE_SIZE}}

NextPoolEdge ==
    \/ \E id \in EdgeIds, v \in Values :
          Len(pool.m_data) < MaxPool /\ PoolAddStep(id, v)
    \/ \E id \in EdgeIds, v \in Values :
          Len(pool.m_data) < MaxPool /\ PoolSetStep(id, v)
    \/ \E id \in EdgeIds : PoolRemoveStep(id)
    \/ PoolClearStep

SpecPoolEdge == Init /\ [][NextPoolEdge]_vars

\* components added to entities that are queued for destruction
NextDoomed ==
    \/ SlotLeft(MaxSlots) /\ CreateEntity
    \/ \E e \in issued : GenLeft(e, MaxGen) /\ KillEntity(e)
    \/ Update
    \/ \E e \in m_entitiesToBeKilled, c \in Components, v \in Values :
          RoomLeft(c) /\ AddComponent(e, c, v)

SpecDoomed == Init /\ [][NextDoomed]_vars

\* tags, called through valid handles; two of the names have the same hash
AllTagNames == TagNames \cup {NameCostarring}

NextTag ==
    \/ SlotLeft(MaxSlots) /\ CreateEntity
    \/ \E e \in issued : GenLeft(e, MaxGen) /\ KillEntity(e)
    \/ Update
    \/ \E e \in issued, n \in AllTagNames : IsValid(e) /\ TagEntity(e, n)

SpecTag == Init /\ [][NextTag]_vars

\* the id functions on their own
CreateEntityIdStep ==
    /\ codec.kind \in {"pair", "split"}
    /\ codec' = [codec EXCEPT !.kind = "made",
                              !.id = CreateEntityIdBits(codec.index, codec.version)]
    /\ UNCHANGED <<crashed, pool, sizeBits, lifeVars, m_componentPools,
                   m_entityComponentSignatures, m_systems, tagVars, groupVars>>

GetEntityIndexStep ==
    /\ codec.kind \in {"id", "made"}
    /\ codec' = [codec EXCEPT !.kind = "split",
                              !.index = GetEntityIndexBits(codec.id),
                              !.version = GetEntityVersionBits(codec.id)]
    /\ UNCHANGED <<crashed, pool, sizeBits, lifeVars, m_componentPools,
                   m_entityComponentSignatures, m_systems, tagVars, groupVars>>

NextCodec == CreateEntityIdStep \/ GetEntityIndexStep

SpecCodec == InitCodec /\ [][NextCodec]_vars

\* groups, called through valid handles; two of the names have the same hash
AllGroupNames == GroupNames \cup {NameLiquid, NameCostarring}

NextGroup ==
    \/ SlotLeft(MaxSlots) /\ CreateEntity
    \/ \E e \in issued : GenLeft(e, MaxGen) /\ KillEntity(e)
    \/ Update
    \/ \E e \in issued, g \in AllGroupNames : IsValid(e) /\ GroupEntity(e, g)
    \/ \E g \in AllGroupNames : GetEntitiesByGroup(g)

SpecGroup == Init /\ [][NextGroup]_vars

\* ------------------------------------------------------------------ claims
Range(seq) == {seq[i] : i \in DOMAIN seq}

\* pool componentId holds a live value for e
PoolHolds(e, componentId) ==
    GetPool(componentId) # Null /\ PoolHas(GetPool(componentId)[1], e)

\* C1: after AddComponent<T>(e, v), HasComponent<T>(e) is true and
\* GetComponent<T>(e) is v; after RemoveComponent<T>(e) of a kind that has a
\* pool, HasComponent<T>(e) is false; for every handle CreateEntity returned.
C1_AddThenHas ==
    [][\A e \in issued, c \in Components :
          /\ \A v \in Values :
                AddComponent(e, c, v) =>
                   /\ ~crashed'
                   /\ HasComponent(e, c)' = {"true"}
                   /\ GetComponent(e, c)' = v
          /\ (GetPool(c) # Null /\ RemoveComponent(e, c)) =>
                /\ ~crashed'
                /\ HasComponent(e, c)' = {"false"}]_vars

\* C2 as stated: when e was destroyed by an Update and no CreateEntity has
\* run since, the next CreateEntity returns e's slot index with a strictly
\* greater generation, e is not valid and the new handle is.
C2_NextCreateReusesSlot ==
    [][CreateEntity =>
         \A e \in freed :
            /\ GetEntityIndex(Created) = GetEntityIndex(e)
            /\ GetEntityVersion(Created) > GetEntityVersion(e)
            /\ ~IsValidIn(m_entityVersions', e)
            /\ IsValidIn(m_entityVersions', Created)]_vars

\* C2 amended: when e was destroyed by an Update, no CreateEntity has run
\* since and e's slot index is the oldest entry of the free-list, the next
\* CreateEntity returns e's slot index with a strictly greater generation, e is
\* not valid and the new handle is.
C2_OldestFreeSlotReused ==
    [][CreateEntity =>
         \A e \in freed :
            Head(m_freeIndices) = GetEntityIndex(e) =>
               /\ GetEntityIndex(Created) = GetEntityIndex(e)
               /\ GetEntityVersion(Created) > GetEntityVersion(e)
               /\ ~IsValidIn(m_entityVersions', e)
               /\ IsValidIn(m_entityVersions', Created)]_vars

\* a handle was just created on the slot of a destroyed one, while another,
\* younger free slot is still waiting
C2_Witness ==
    /\ freed = {}
    /\ m_freeIndices # <<>>
    /\ \E e \in destroyed, n \in m_entitiesToBeAdded :
          /\ GetEntityIndex(n) = GetEntityIndex(e)
          /\ GetEntityVersion(n) = GetEntityVersion(e) + 1
          /\ IsValid(n) /\ ~IsValid(e)

\* C3: CreateEntity never returns an identifier it returned before.
C3_NeverIssuedTwice == [][CreateEntity => Created \notin issued]_vars

\* every slot allocated so far has been issued at two generations
C3_Witness ==
    /\ m_numEntities = LifeSlots
    /\ \A i \in 0..(LifeSlots - 1) :
          \E a, b \in issued :
             a # b /\ GetEntityIndex(a) = i /\ GetEntityIndex(b) = i

HandleUniverse ==
    {CreateEntityId(i, g) : i \in 0..(LifeSlots + 1), g \in 0..(LifeGen + 1)}

\* C4: IsValid(h) holds exactly when h's slot index is inside the version
\* table and the table's generation for the slot is h's; a handle CreateEntity
\* returned is valid until an Update destroys it and never afterwards.
C4_ValidIffGenerationMatches ==
    /\ \A h \in HandleUniverse :
          IsValid(h) <=>
             /\ GetEntityIndex(h) < Len(m_entityVersions)
             /\ At(m_entityVersions, GetEntityIndex(h)) = GetEntityVersion(h)
    /\ \A h \in issued : IsValid(h) <=> h \notin destroyed

\* a destroyed handle whose slot was recycled twice since
C4_Witness ==
    \E h \in destroyed, n \in issued :
       /\ GetEntityIndex(n) = GetEntityIndex(h)
       /\ GetEntityVersion(n) = GetEntityVersion(h) + 2
       /\ IsValid(n) /\ ~IsValid(h)

\* C5: the dense value array and the dense entity-id array have the same
\* length, and the sparse index of the slot of every dense entity id is the
\* position of that entry (so no slot occurs twice in the dense arrays).
C5_PackingInvariant ==
    /\ Len(pool.m_data) = Len(pool.m_packed)
    /\ \A i \in 0..(Len(pool.m_packed) - 1) :
          LET index == GetEntityIndex(At(pool.m_packed, i))
          IN  /\ PoolHas(pool, At(pool.m_packed, i))
              /\ SparseAt(pool.m_sparse, index \div PAGE_SIZE, index % PAGE_SIZE) = i

\* C6: for every live entity e and component kind c, signature bit c of e's
\* slot is set iff pool c holds a live value for e, and HasComponent answers
\* the same as the pool's Has.
C6_SignatureMatchesPools ==
    ~crashed =>
       \A e \in issued : IsValid(e) =>
          \A c \in Components :
             /\ c \in At(m_entityComponentSignatures, GetEntityIndex(e))
                   <=> PoolHolds(e, c)
             /\ HasComponent(e, c) = {IF PoolHolds(e, c) THEN "true" ELSE "false"}

\* the calls of a view, as a set, with the values listed in the order 0, 1
Swapped(calls) == {<<calls[i][1], calls[i][3], calls[i][2]>> : i \in DOMAIN calls}

\* C7: View<A, B> calls func exactly once for every entity that has both A and
\* B, with its id and its own values, never for an entity missing either, and
\* View<B, A> makes the same calls.
C7_ViewCallsOncePerMatch ==
    ~crashed =>
       LET calls == View(<<0, 1>>)
       IN  /\ \A e \in issued : IsValid(e) =>
                LET mine == {i \in DOMAIN calls : calls[i][1] = e}
                IN  IF PoolHolds(e, 0) /\ PoolHolds(e, 1)
                    THEN /\ Cardinality(mine) = 1
                         /\ \A i \in mine :
                               calls[i] = <<e, PoolGet(GetPool(0)[1], e),
                                            PoolGet(GetPool(1)[1], e)>>
                    ELSE mine = {}
           /\ Range(calls) = Swapped(View(<<1, 0>>))

InSystem(S, e) == e \in Range(m_systems[S].m_entities)

\* e is in no system list, its signature is empty, no pool has an entry for
\* its slot, it holds no tag and is in no group
Purged(e) ==
    /\ \A S \in DOMAIN m_systems : ~InSystem(S, e)
    /\ At(m_entityComponentSignatures, GetEntityIndex(e)) = {}
    /\ \A c \in 0..(Len(m_componentPools) - 1) :
          At(m_componentPools, c) # Null =>
             LET p == At(m_componentPools, c)[1]
             IN  /\ ~PoolHas(p, e)
                 /\ \A i \in DOMAIN p.m_packed :
                       GetEntityIndex(p.m_packed[i]) # GetEntityIndex(e)
    /\ \A n \in TagNames : ~EntityHasTag(e, n)
    /\ \A g \in GroupNames : ~EntityBelongsToGroup(e, g)

\* C8: after the Update that destroys a killed, still valid entity e, e is in
\* no system's list, the signature of its slot is empty, no pool holds an entry
\* for its slot, it holds no tag and belongs to no group.
C8_DestroyedEntityIsPurged ==
    [][Update =>
         \A e \in m_entitiesToBeKilled : IsValid(e) => Purged(e)']_vars

\* what the client can observe of entity f: components and values, tag, groups
Observed(f) ==
    [components |-> [c \in Components |->
                        IF PoolHolds(f, c) THEN <<PoolGet(GetPool(c)[1], f)>>
                        ELSE <<>>],
     tags |-> {n \in TagNames : EntityHasTag(f, n)},
     groups |-> {g \in GroupNames : EntityBelongsToGroup(f, g)}]

CallThrough(e) ==
    \/ \E c \in Components, v \in Values : AddComponent(e, c, v)
    \/ \E c \in Components : RemoveComponent(e, c)
    \/ \E n \in TagNames : TagEntity(e, n)
    \/ \E g \in GroupNames : GroupEntity(e, g)

\* C9: a component, tag or group call through a stale handle leaves the
\* components and values, the tag and the groups of every valid entity as they
\* were.
C9_StaleHandleTouchesNothing ==
    [][\A e \in issued :
          (~IsValid(e) /\ CallThrough(e)) =>
             \A f \in issued : IsValid(f) => Observed(f)' = Observed(f)]_vars

C11_KillIsDeferred ==
    [][/\ \A e \in issued :
             (IsValid(e) /\ KillEntity(e)) =>
                /\ m_entitiesToBeKilled' = m_entitiesToBeKilled \cup {e}
                /\ UNCHANGED <<m_numEntities, m_entitiesToBeAdded,
                               m_componentPools, m_entityComponentSignatures,
                               m_systems, m_freeIndices, m_entityVersions,
                               tagVars, groupVars>>
                /\ IsValid(e)'
                /\ \A c \in Components :
                      /\ HasComponent(e, c)' = HasComponent(e, c)
                      /\ PoolHolds(e, c) => GetComponent(e, c)' = GetComponent(e, c)
                /\ View(<<0, 1>>)' = View(<<0, 1>>)
       /\ \A e \in m_entitiesToBeKilled :
             (m_entitiesToBeKilled' # {} \/ ~Update) =>
                /\ e \in m_entitiesToBeKilled'
                /\ IsValid(e)'
                /\ At(m_entityVersions', GetEntityIndex(e)) = GetEntityVersion(e)
                /\ GetEntityIndex(e) \notin Range(m_freeIndices')
                /\ \A S \in DOMAIN m_systems \cap DOMAIN m_systems' :
                      InSystem(S, e)' = InSystem(S, e)]_vars

\* a visible entity with a component, enrolled in a system, is queued for
\* destruction and still valid
C11_Witness ==
    \E e \in m_entitiesToBeKilled :
       /\ IsValid(e)
       /\ e \notin m_entitiesToBeAdded
       /\ PoolHolds(e, 0)
       /\ 0 \in DOMAIN m_systems /\ InSystem(0, e)

\* number of times x occurs in seq
Count(seq, x) == Cardinality({i \in DOMAIN seq : seq[i] = x})

\* C12: KillEntity on a handle that is not valid (generation mismatch or slot
\* out of range) changes nothing and queues nothing, so every queued handle is
\* valid, and an Update bumps a generation or frees a slot only for a valid
\* handle of the pending-destroy set.
C12_KillInvalidIsNoOp ==
    [][/\ \A e \in issued \cup {OutOfRange} :
             (~IsValid(e) /\ KillEntity(e)) => UNCHANGED vars
       /\ \A e \in m_entitiesToBeKilled' : IsValidIn(m_entityVersions', e)
       /\ Update =>
             \A index \in 0..(Len(m_entityVersions) - 1) :
                (\/ At(m_entityVersions', index) # At(m_entityVersions, index)
                 \/ Count(m_freeIndices', index) # Count(m_freeIndices, index))
                   => \E e \in m_entitiesToBeKilled :
                         IsValid(e) /\ GetEntityIndex(e) = index]_vars

\* a stale handle exists whose slot has a live entity again, nothing is queued,
\* and the slot is not on the free-list
C12_Witness ==
    /\ m_entitiesToBeKilled = {}
    /\ m_entitiesToBeAdded = {}
    /\ \E h \in destroyed, n \in issued :
          /\ GetEntityIndex(n) = GetEntityIndex(h)
          /\ IsValid(n) /\ ~IsValid(h)
          /\ GetEntityIndex(h) \notin Range(m_freeIndices)

\* C13: an Update raises the generation of the slot of every queued entity by
\* exactly one and appends the slot to the free-list exactly once; every other
\* step leaves every generation as it is and adds nothing to the free-list.
C13_OneBumpPerDestruction ==
    [][\A index \in 0..(Len(m_entityVersions) - 1) :
          IF (\E e \in m_entitiesToBeKilled : GetEntityIndex(e) = index) /\ Update
          THEN /\ At(m_entityVersions', index) = At(m_entityVersions, index) + 1
               /\ Count(m_freeIndices', index) = Count(m_freeIndices, index) + 1
               /\ Count(m_freeIndices', index) = 1
          ELSE /\ At(m_entityVersions', index) = At(m_entityVersions, index)
               /\ Count(m_freeIndices', index) <= Count(m_freeIndices, index)]_vars

\* a slot was destroyed LifeGen times and is on the free-list once, next to
\* another freed slot
C13_Witness ==
    \E index \in 0..(Len(m_entityVersions) - 1) :
       /\ At(m_entityVersions, index) = LifeGen
       /\ Count(m_freeIndices, index) = 1
       /\ Len(m_freeIndices) > 1

\* the handle of the current generation of a slot
Current(index) == CreateEntityId(index, At(m_entityVersions, index))

Generation(index) ==
    IF index < Len(m_entityVersions) THEN At(m_entityVersions, index) ELSE 0

\* where a slot is in its life cycle
SlotState(index) ==
    IF index >= m_numEntities \/ index \in Range(m_freeIndices) THEN "Free"
    ELSE IF Current(index) \in m_entitiesToBeKilled THEN "PendingDestroy"
    ELSE IF Current(index) \in m_entitiesToBeAdded THEN "PendingCreate"
    ELSE "Active"

\* C14 as stated: a slot moves only Free -> PendingCreate (CreateEntity),
\* PendingCreate -> Active (Update), Active -> PendingDestroy (KillEntity) and
\* PendingDestroy -> Free (Update), and its generation changes only on the
\* last edge.
C14_SlotLifeCycle ==
    [][\A index \in 0..(LifeSlots - 1) :
          LET edge == <<SlotState(index), SlotState(index)'>>
          IN  /\ edge[1] # edge[2] =>
                    \/ edge = <<"Free", "PendingCreate">> /\ CreateEntity
                    \/ edge = <<"PendingCreate", "Active">> /\ Update
                    \/ edge = <<"Active", "PendingDestroy">>
                          /\ KillEntity(Current(index))
                    \/ edge = <<"PendingDestroy", "Free">> /\ Update
              /\ Generation(index)' # Generation(index) =>
                    edge = <<"PendingDestroy", "Free">>]_vars

\* C14 amended: as stated, and KillEntity also takes a slot from PendingCreate
\* to PendingDestroy.
C14_SlotLifeCycleWithEarlyKill ==
    [][\A index \in 0..(LifeSlots - 1) :
          LET edge == <<SlotState(index), SlotState(index)'>>
          IN  /\ edge[1] # edge[2] =>
                    \/ edge = <<"Free", "PendingCreate">> /\ CreateEntity
                    \/ edge = <<"PendingCreate", "Active">> /\ Update
                    \/ edge \in {<<"Active", "PendingDestroy">>,
                                 <<"PendingCreate", "PendingDestroy">>}
                          /\ KillEntity(Current(index))
                    \/ edge = <<"PendingDestroy", "Free">> /\ Update
              /\ Generation(index)' # Generation(index) =>
                    edge = <<"PendingDestroy", "Free">>]_vars

\* a recycled slot whose entity was killed before the Update that would have
\* made it visible, next to an active slot and a free one
C14_Witness ==
    /\ \E e \in m_entitiesToBeKilled \cap m_entitiesToBeAdded :
          GetEntityVersion(e) > 0 /\ SlotState(GetEntityIndex(e)) = "PendingDestroy"
    /\ \E index \in 0..(LifeSlots - 1) : SlotState(index) = "Active"
    /\ \E index \in 0..(LifeSlots - 1) : SlotState(index) = "Free"

NoComponentLeft(e) ==
    /\ At(m_entityComponentSignatures, GetEntityIndex(e)) = {}
    /\ \A c \in 0..(Len(m_componentPools) - 1) :
          At(m_componentPools, c) # Null =>
             LET p == At(m_componentPools, c)[1]
             IN  /\ ~PoolHas(p, e)
                 /\ \A i \in DOMAIN p.m_packed :
                       GetEntityIndex(p.m_packed[i]) # GetEntityIndex(e)

\* C16: after the Update that destroys an entity, no pool holds an entry for
\* its slot and the signature of the slot is empty, whatever components were
\* added to it while it was queued for destruction.
C16_DoomedAddLeavesNothing ==
    [][Update => \A e \in m_entitiesToBeKilled : NoComponentLeft(e)']_vars

SlotsOf(handles) == {GetEntityIndex(h) : h \in handles}

\* C17: CreateEntity hands out the slot at the front of the free-list, and a
\* fresh slot, whose index is the number of slots handed out so far, only when
\* the free-list is empty; the free-list holds, once each, exactly the slots
\* without a live entity, so after all k entities were destroyed the next k
\* calls return the k freed slots and m_numEntities stays.
C17_FifoReuse ==
    [][/\ CreateEntity =>
             /\ Cardinality(m_entitiesToBeAdded' \ m_entitiesToBeAdded) = 1
             /\ \A n \in m_entitiesToBeAdded' \ m_entitiesToBeAdded :
                   IF m_freeIndices = <<>>
                   THEN /\ GetEntityIndex(n) = Cardinality(SlotsOf(issued))
                        /\ m_numEntities' = m_numEntities + 1
                        /\ m_freeIndices' = <<>>
                   ELSE /\ GetEntityIndex(n) = Head(m_freeIndices)
                        /\ m_freeIndices' = Tail(m_freeIndices)
                        /\ m_numEntities' = m_numEntities
       /\ m_numEntities' = Cardinality(SlotsOf(issued'))
       /\ \A index \in 0..(m_numEntities' - 1) :
             Count(m_freeIndices', index) =
                IF \E h \in issued' : IsValid(h)' /\ GetEntityIndex(h) = index
                THEN 0 ELSE 1]_vars

\* all LifeSlots entities were destroyed and LifeSlots creates have taken the
\* freed slots again, without a fresh slot
C17_Witness ==
    /\ m_numEntities = LifeSlots
    /\ m_freeIndices = <<>>
    /\ Cardinality(m_entitiesToBeAdded) = LifeSlots
    /\ Cardinality(destroyed) >= LifeSlots
    /\ \A n \in m_entitiesToBeAdded : GetEntityVersion(n) >= 1

\* C18: an Update appends the slots of the queued entities to the free-list in
\* the order in which KillEntity queued them.
C18_FreedInKillOrder ==
    [][Update =>
         m_freeIndices' =
            m_freeIndices \o [i \in DOMAIN killOrder |-> GetEntityIndex(killOrder[i])]]_vars

\* C19: Pool::Add for a slot index that is not below MAX_ENTITIES fails the
\* assertion and stores nothing; for a slot index below MAX_ENTITIES it stores
\* the component.
C19_AddBeyondMaxAsserts ==
    [][\A id \in EdgeIds, v \in Values :
          PoolAddStep(id, v) =>
             IF GetEntityIndex(id) < MAX_ENTITIES
             THEN ~crashed' /\ PoolHas(pool', id) /\ PoolGet(pool', id) = v
             ELSE crashed' /\ pool' = pool]_vars

\* the lists of kinds a view is called with
KindLists == {<<0>>, <<1>>, <<0, 1>>, <<1, 0>>}

\* no component of kind c was ever added: the pool vector is too short for c
\* or its entry is null
NoPoolYet(c) == c >= Len(m_componentPools) \/ At(m_componentPools, c) = Null

\* C20: a View over a list of kinds of which at least one has no pool yet
\* calls func zero times.
C20_ViewWithoutPoolYieldsNothing ==
    \A kinds \in KindLists :
       (\E k \in DOMAIN kinds : NoPoolYet(kinds[k])) => View(kinds) = <<>>

\* kind 1 has a pool with a value of a live entity, kind 0 has a null entry
C20_Witness ==
    /\ ~crashed
    /\ Len(m_componentPools) = 2
    /\ At(m_componentPools, 0) = Null
    /\ \E e \in issued : IsValid(e) /\ PoolHolds(e, 1)
    /\ View(<<1>>) # <<>>
    /\ View(<<1, 0>>) = <<>>

\* the tag names entity e holds
TagsOf(e) == {n \in AllTagNames : EntityHasTag(e, n)}

\* C21: an entity holds at most one tag, and after TagEntity(e, b) the entity
\* has tag b and no tag a # b.
C21_AtMostOneTag ==
    [][/\ \A e \in issued : IsValid(e)' => Cardinality(TagsOf(e)') <= 1
       /\ \A e \in issued, b \in AllTagNames :
             (IsValid(e) /\ TagEntity(e, b)) =>
                /\ EntityHasTag(e, b)'
                /\ \A a \in AllTagNames \ {b} : ~EntityHasTag(e, a)']_vars

\* e has the tag and the tag resolves to e
HoldsTag(e, n) == EntityHasTag(e, n) /\ GetEntityByTag(n) = e

\* C22: TagEntity(e, name) makes EntityHasTag(e, name) true and
\* GetEntityByTag(name) equal to e, and both stay so in every step that neither
\* tags e again nor destroys e.
C22_TagResolvesToEntity ==
    [][\A e \in issued, n \in AllTagNames :
          IsValid(e) =>
             /\ TagEntity(e, n) => HoldsTag(e, n)'
             /\ (/\ HoldsTag(e, n)
                 /\ \A m \in AllTagNames : ~TagEntity(e, m)
                 /\ ~(e \in m_entitiesToBeKilled /\ Update))
                   => HoldsTag(e, n)']_vars

\* C23: an entity added to a group belongs to it and is listed in it; a group
\* lists no entity twice, and its members are exactly the entities added to
\* it and not destroyed since
C23_GroupMembers ==
    \A g \in AllGroupNames :
       LET members == EntitiesByGroup(g)
           added == {e \in issued : <<e, g>> \in grouped}
       IN  /\ Cardinality(Range(members)) = Len(members)
           /\ Range(members) = added
           /\ \A e \in issued : EntityBelongsToGroup(e, g) <=> e \in added

\* C24: splitting the id made of a 32-bit index and a 32-bit version gives the
\* index and the version back, making an id of the index and the version of
\* a 64-bit id gives the id back, and two pairs with the same id are the same
C24_IdRoundTrip ==
    LET made == CreateEntityIdBits(codec.index, codec.version)
    IN  /\ GetEntityIndexBits(made) = codec.index
        /\ GetEntityVersionBits(made) = codec.version
        /\ CreateEntityIdBits(GetEntityIndexBits(codec.id),
                              GetEntityVersionBits(codec.id)) = codec.id
        /\ \A i \in U32s, g \in U32s :
              CreateEntityIdBits(i, g) = made => i = codec.index /\ g = codec.version

C24_Witness ==
    /\ codec.kind = "made"
    /\ codec.index = <<32768, 1>>
    /\ codec.version = <<65535, 32768>>
    /\ codec.id = <<65535, 32768, 32768, 1>>

\* C25: for a valid entity e on a recycled slot (generation 1 or more),
\* AddComponent<T>(e, v) sets the bit of T in the signature entry of e's slot
\* and makes HasComponent<T>(e) true; the Update that enrols e puts it in every
\* system whose components e holds; the Update that destroys e empties the
\* signature entry of its slot
C25_SignatureBySlot ==
    [][\A e \in issued :
          (GetEntityVersion(e) >= 1 /\ IsValid(e)) =>
             /\ \A c \in Components :
                   AddComponent(e, c, 1) =>
                      /\ ~crashed'
                      /\ c \in At(m_entityComponentSignatures', GetEntityIndex(e))
                      /\ HasComponent(e, c)' = {"true"}
             /\ (/\ e \in m_entitiesToBeAdded \ m_entitiesToBeKilled
                 /\ Update)
                   => \A S \in DOMAIN m_systems :
                         (\A c \in RequiredOf(S) : PoolHolds(e, c))
                            => InSystem(S, e)'
             /\ (e \in m_entitiesToBeKilled /\ Update) =>
                   At(m_entityComponentSignatures', GetEntityIndex(e)) = {}]_vars

\* the entities a View over kinds yields
Yielded(kinds) == {View(kinds)[i][1] : i \in DOMAIN View(kinds)}

\* C26: the entity CreateEntity returns, on a fresh or on a recycled slot,
\* starts empty whatever was called before: HasComponent is false for every
\* kind, no View yields it, it holds no tag and belongs to no group
C26_CreatedStartsEmpty ==
    [][\A e \in issued' :
          (e = Created /\ CreateEntity) =>
             /\ \A c \in Components : HasComponent(e, c)' = {"false"}
             /\ \A kinds \in KindLists : e \notin Yielded(kinds)'
             /\ \A n \in TagNames : ~EntityHasTag(e, n)'
             /\ ~EntityBelongsToGroup(e, NameEnemies)']_vars

\* C27: an AddComponent or a RemoveComponent on (e, T) that the process
\* survives changes neither HasComponent nor, where the component is held,
\* GetComponent of any other pair (e2, T2) of a valid entity e2
C27_OtherPairsUntouched ==
    [][\A e \in issued, c \in Components :
          (/\ ~crashed'
           /\ \/ \E v \in Values : AddComponent(e, c, v)
              \/ RemoveComponent(e, c))
             => \A e2 \in issued, c2 \in Components :
                   (IsValid(e2) /\ <<e2, c2>> # <<e, c>>) =>
                      /\ HasComponent(e2, c2)' = HasComponent(e2, c2)
                      /\ HasComponent(e2, c2) = {"true"} =>
                            GetComponent(e2, c2)' = GetComponent(e2, c2)]_vars

\* the position of the dense entry of id's slot
DenseIndex(p, id) ==
    LET index == GetEntityIndex(id)
    IN  SparseAt(p.m_sparse, index \div PAGE_SIZE, index % PAGE_SIZE)

\* C28: Remove(id) of a slot that is present takes one entry off both dense
\* arrays, marks the slot of id absent, moves the last entry (value and id)
\* into the position of the removed one and repoints the sparse index of the
\* moved entry to it, and leaves every other entry where it was; Remove of a
\* slot that is absent changes nothing
C28_RemoveSwapsLast ==
    [][\A id \in PoolIds :
          PoolRemoveStep(id) =>
             IF ~PoolHas(pool, id) THEN pool' = pool
             ELSE LET k == DenseIndex(pool, id)
                      last == Len(pool.m_data) - 1
                      lastId == At(pool.m_packed, last)
                  IN  /\ Len(pool.m_data') = last
                      /\ Len(pool.m_packed') = last
                      /\ ~PoolHas(pool', id)
                      /\ k # last =>
                            /\ At(pool.m_packed', k) = lastId
                            /\ At(pool.m_data', k) = At(pool.m_data, last)
                            /\ PoolHas(pool', lastId)
                            /\ DenseIndex(pool', lastId) = k
                      /\ \A j \in 0..(last - 1) :
                            j # k =>
                               /\ At(pool.m_packed', j) = At(pool.m_packed, j)
                               /\ At(pool.m_data', j) = At(pool.m_data, j)]_vars

\* C29: Set(id, value) of a slot that is present replaces the stored value and
\* leaves the length of the pool and the position of every entry as they
\* were; of a slot that is absent it does what Add does and the pool grows by
\* one; either way Has(id) is true and Get(id) is value afterwards, and a
\* second Set(id, value) changes nothing
C29_SetReplacesOrAdds ==
    [][\A id \in PoolIds, v \in Values :
          PoolSetStep(id, v) =>
             /\ IF PoolHas(pool, id)
                THEN /\ Len(pool.m_data') = Len(pool.m_data)
                     /\ pool.m_packed' = pool.m_packed
                     /\ pool.m_sparse' = pool.m_sparse
                     /\ \A j \in 0..(Len(pool.m_data) - 1) :
                           j # DenseIndex(pool, id) =>
                              At(pool.m_data', j) = At(pool.m_data, j)
                ELSE /\ Len(pool.m_data') = Len(pool.m_data) + 1
                     /\ Len(pool.m_packed') = Len(pool.m_packed) + 1
                     /\ pool' = PoolAdd(pool, id, v)
             /\ PoolHas(pool', id)
             /\ PoolGet(pool', id) = v
             /\ PoolSet(pool', id, v) = pool']_vars

\* a pool of two slots in which the value of the first was replaced
C29_Witness ==
    /\ pool.m_packed = <<CreateEntityId(0, 0), CreateEntityId(PAGE_SIZE, 1)>>
    /\ pool.m_data = <<2, 1>>
    /\ PoolGet(pool, CreateEntityId(0, 0)) = 2

\* C30: after the Update that finds an entity e both created and killed since
\* the last Update, e is not valid, is in the list of no system, has an empty
\* signature, no pool has a value or a dense entry for it, its slot is on the
\* free list and the generation of the slot is that of e plus one
C30_CreatedAndKilledBeforeUpdate ==
    [][Update =>
         \A e \in m_entitiesToBeAdded \cap m_entitiesToBeKilled :
            /\ ~IsValid(e)'
            /\ \A S \in DOMAIN m_systems' : ~InSystem(S, e)'
            /\ At(m_entityComponentSignatures', GetEntityIndex(e)) = {}
            /\ \A c \in Components :
                  /\ ~PoolHolds(e, c)'
                  /\ GetPool(c)' # Null => e \notin Range(GetPool(c)[1].m_packed)'
            /\ GetEntityIndex(e) \in Range(m_freeIndices')
            /\ At(m_entityVersions', GetEntityIndex(e)) = GetEntityVersion(e) + 1]_vars

\* the handles CreateEntity returned that are valid
Live == {h \in issued : IsValid(h)}

\* C31: the free-list holds no slot index twice and no slot index of an
\* entity that is pending-create, active or pending-destroy; every allocated
\* slot is either on the free-list or the slot of exactly one valid handle, so
\* no two valid handles share a slot
C31_FreeListDisjoint ==
    /\ \A k \in DOMAIN m_freeIndices :
          /\ m_freeIndices[k] < m_numEntities
          /\ Count(m_freeIndices, m_freeIndices[k]) = 1
    /\ \A e \in m_entitiesToBeAdded \cup m_entitiesToBeKilled \cup Live :
          GetEntityIndex(e) \notin Range(m_freeIndices)
    /\ \A a \in Live, b \in Live :
          GetEntityIndex(a) = GetEntityIndex(b) => a = b
    /\ Cardinality(Live) + Len(m_freeIndices) = m_numEntities

\* a freed slot next to a pending-destroy entity and a pending-create entity
\* on a recycled slot
C31_Witness ==
    /\ m_freeIndices # <<>>
    /\ \E e \in m_entitiesToBeAdded :
          GetEntityVersion(e) >= 1 /\ e \notin m_entitiesToBeKilled
    /\ \E e \in m_entitiesToBeKilled : e \notin m_entitiesToBeAdded

\* the lookup of GetEntityByTag finds the name
TagFound(tag) == HashOf[tag] \in DOMAIN m_tagToEntity

\* C32: a name that the lookup finds resolves to a valid entity, and for every
\* valid entity e and name n, n is found and GetEntityByTag(n) is e exactly
\* when EntityHasTag(e, n)
C32_TagLookupConsistent ==
    \A n \in AllTagNames :
       /\ TagFound(n) => GetEntityByTag(n) \in Live
       /\ \A e \in Live :
             (TagFound(n) /\ GetEntityByTag(n) = e) <=> EntityHasTag(e, n)

\* C33: RemoveComponent<T>(e) on a valid entity that has no T, whether or not
\* a pool of T exists, ends without error and leaves the pools, the
\* signatures, the pending sets and the system lists as they were
C33_RemoveAbsentIsNoOp ==
    [][\A e \in issued, c \in Components :
          (/\ IsValid(e)
           /\ c \notin At(m_entityComponentSignatures, GetEntityIndex(e))
           /\ ~PoolHolds(e, c)
           /\ RemoveComponent(e, c))
             => /\ ~crashed'
                /\ UNCHANGED <<m_componentPools, m_entityComponentSignatures,
                               m_entitiesToBeAdded, m_entitiesToBeKilled,
                               m_systems>>]_vars

Visible == issued \ m_entitiesToBeAdded

\* C35: an entity that is past the pending-create set stays past it, and is in
\* the list of a system after a step only if the system was there before the
\* step with the entity in its list: AddSystem enrols no visible entity, and
\* no later step enrols one, whatever components it has
C35_AddSystemEnrolsNobody ==
    [][/\ Visible \subseteq Visible'
       /\ \A S \in DOMAIN m_systems', e \in Visible :
             InSystem(S, e)' => (S \in DOMAIN m_systems /\ InSystem(S, e))]_vars

\* a visible entity has the components of a system and is not in its list,
\* while an entity that was flushed after the system was added is
C35_Witness ==
    \E S \in DOMAIN m_systems :
       \E e \in Visible, f \in Visible :
          /\ IsValid(e) /\ IsValid(f)
          /\ InSystem(S, f) /\ ~InSystem(S, e)
          /\ \A c \in RequiredOf(S) :
                /\ PoolHolds(e, c)
                /\ c \in At(m_entityComponentSignatures, GetEntityIndex(e))
          /\ \A T \in DOMAIN m_systems : ~InSystem(T, e)

=============================================================================
